---- MODULE Spec2Model ----
(***************************************************************************)
(* Model of xunitmerge (src/xunitmerge/xmerge.py): merge_trees, the        *)
(* CDATA-preserving serializer installed by patch_etree_cname, and the     *)
(* merge_xunit driver.                                                     *)
(*                                                                         *)
(* Text (attribute values, element text, serializer output) is a sequence  *)
(* of one-character strings; tag names and attribute names are atomic      *)
(* symbols of the same alphabet.  An optional text (Python None or a       *)
(* string) is a sequence of length 0 (None) or 1 (the string).             *)
(* Numbers are kept in halves (h = 2 * value) so that the float sums the   *)
(* code computes are exact: every modelled value is a multiple of 0.5.     *)
(***************************************************************************)
EXTENDS Integers, Sequences, FiniteSets, TLC

VARIABLES trees, mpc, mres,
          selem, spc, sout, sstd,
          files, wfail, direct, xpc, xerr, xtree, opened, output,
          ser_xml, ser_dict, saved_serialize

mvars == <<trees, mpc, mres>>
svars == <<selem, spc, sout, sstd>>
xvars == <<files, wfail, direct, xpc, xerr, xtree, opened, output,
           ser_xml, ser_dict, saved_serialize>>
vars == <<mvars, svars, xvars>>

---------------------------------------------------------------------------
(* Bounds *)
MaxTrees == 2
MaxMerged == 3
MaxFiles == 3
MaxPatchDepth == 2

---------------------------------------------------------------------------
(* Text helpers *)
RECURSIVE Flatten(_)
Flatten(ss) == IF ss = <<>> THEN <<>> ELSE Head(ss) \o Flatten(Tail(ss))

Range(s) == {s[i] : i \in 1..Len(s)}

IsInfix(p, s) ==
    \E i \in 0..(Len(s) - Len(p)) : SubSeq(s, i + 1, i + Len(p)) = p

---------------------------------------------------------------------------
(* float(value), int(x) and six.text_type(x) on the modelled numerals *)
DigitVal == [c \in {"0", "1", "2", "3", "4", "5", "6", "7", "8", "9"} |->
               CASE c = "0" -> 0 [] c = "1" -> 1 [] c = "2" -> 2 [] c = "3" -> 3
                 [] c = "4" -> 4 [] c = "5" -> 5 [] c = "6" -> 6 [] c = "7" -> 7
                 [] c = "8" -> 8 [] c = "9" -> 9]

DigitChar == <<"0", "1", "2", "3", "4", "5", "6", "7", "8", "9">>

IsDigits(s) == \A i \in 1..Len(s) : s[i] \in DOMAIN DigitVal

RECURSIVE DigitsVal(_)
DigitsVal(s) ==
    IF s = <<>> THEN 0
    ELSE 10 * DigitsVal(SubSeq(s, 1, Len(s) - 1)) + DigitVal[s[Len(s)]]

DotAt(s) == {i \in 1..Len(s) : s[i] = "."}

IntPart(s) == IF DotAt(s) = {} THEN s
              ELSE SubSeq(s, 1, (CHOOSE i \in DotAt(s) : TRUE) - 1)

FracPart(s) == IF DotAt(s) = {} THEN <<>>
               ELSE SubSeq(s, (CHOOSE i \in DotAt(s) : TRUE) + 1, Len(s))

\* float(s) succeeds; fractions other than .0 and .5 are outside the model
IsNumeric(s) ==
    /\ Cardinality(DotAt(s)) <= 1
    /\ IsDigits(IntPart(s)) /\ IsDigits(FracPart(s))
    /\ Len(IntPart(s)) + Len(FracPart(s)) > 0
    /\ FracPart(s) \in {<<>>, <<"0">>, <<"5">>}

\* float(s), in halves
FloatOf(s) == 2 * DigitsVal(IntPart(s)) + (IF FracPart(s) = <<"5">> THEN 1 ELSE 0)

\* int(x) of a non-negative float in halves, in halves
IntOf(h) == 2 * (h \div 2)

RECURSIVE FormatInt(_)
FormatInt(n) ==
    IF n < 10 THEN <<DigitChar[n + 1]>>
    ELSE FormatInt(n \div 10) \o <<DigitChar[(n % 10) + 1]>>

\* six.text_type(value): value is [isfloat, h]
text_type(v) ==
    IF v.isfloat
    THEN FormatInt(v.h \div 2) \o <<".">> \o (IF v.h % 2 = 1 THEN <<"5">> ELSE <<"0">>)
    ELSE FormatInt(v.h \div 2)

---------------------------------------------------------------------------
(* Elements *)
Element(tag, attrib, text, children, tail) ==
    [tag |-> tag, attrib |-> attrib, text |-> text, children |-> children, tail |-> tail]

NoAttrib == [k \in {} |-> <<>>]

Chars_a == <<"a">>
Chars_s == <<"s">>

TestCase == Element("testcase", ("name" :> Chars_a) @@ ("time" :> <<"0", ".", "5">>),
                    <<>>, <<>>, <<>>)

SuiteAttribs ==
    { ("tests" :> <<"1">>) @@ ("errors" :> <<"0">>) @@ ("failures" :> <<"0">>)
        @@ ("time" :> <<"0", ".", "5">>),
      ("name" :> Chars_s) @@ ("tests" :> <<"2">>) @@ ("disabled" :> <<"1">>)
        @@ ("skipped" :> <<"1">>) @@ ("failures" :> <<"1">>) @@ ("errors" :> <<"1">>)
        @@ ("time" :> <<"1", ".", "5">>),
      ("tests" :> <<"x">>) @@ ("time" :> <<"0", ".", "5">>),
      ("tests" :> <<>>) @@ ("errors" :> <<"1">>) @@ ("time" :> <<"2">>) }

\* second-level elements: a childless one and ones that have a child
SecondLevel ==
    {TestCase} \cup {Element("testsuite", a, <<>>, <<TestCase>>, <<>>) : a \in SuiteAttribs}

RootAttribs ==
    { ("tests" :> <<"1">>) @@ ("errors" :> <<"0">>) @@ ("failures" :> <<"0">>)
        @@ ("time" :> <<"0", ".", "5">>),
      ("name" :> Chars_s) @@ ("tests" :> <<"2">>) }

\* the second-level elements of all the trees of one call, in order
MergedSeqs == UNION {[1..k -> SecondLevel] : k \in 0..MaxMerged}

\* the ways to cut a sequence of len elements into n consecutive parts
Cuts(n, len) ==
    {c \in [0..n -> 0..len] :
        c[0] = 0 /\ c[n] = len /\ \A i \in 1..n : c[i - 1] <= c[i]}

\* an argument list of merge_trees: n parsed trees (a tree is identified
\* with its root element) with root attributes a and the elements of m,
\* cut at c, as their children
TreeSeq(n, m, a, c) ==
    [i \in 1..n |->
        Element("testsuite", a[i], <<>>, SubSeq(m, c[i - 1] + 1, c[i]), <<>>)]

---------------------------------------------------------------------------
(* merge_trees *)
StatKeys == <<"tests", "disabled", "skipped", "failures", "errors", "time">>

IntZero == [isfloat |-> FALSE, h |-> 0]

InitStats == [k \in Range(StatKeys) |-> IntZero]

\* a collecter that stores the value instead of adding it to the total
CollectKey_overwrite(stats, elem, key) ==
    IF key \in DOMAIN elem.attrib /\ elem.attrib[key] # <<>>
    THEN IF IsNumeric(elem.attrib[key])
         THEN LET sum == FloatOf(elem.attrib[key])
              IN [ok |-> TRUE,
                  stats |-> [stats EXCEPT ![key] =
                               IF key # "time"
                               THEN [isfloat |-> FALSE, h |-> IntOf(sum)]
                               ELSE [isfloat |-> TRUE, h |-> sum]]]
         ELSE [ok |-> FALSE, stats |-> stats]
    ELSE [ok |-> TRUE, stats |-> stats]

\* lines 97-101 for one key; [ok, stats]
CollectKey(stats, elem, key) ==
    IF key \in DOMAIN elem.attrib /\ elem.attrib[key] # <<>>
    THEN IF IsNumeric(elem.attrib[key])
         THEN LET sum == FloatOf(elem.attrib[key]) + stats[key].h
              IN [ok |-> TRUE,
                  stats |-> [stats EXCEPT ![key] =
                               IF key # "time"
                               THEN [isfloat |-> FALSE, h |-> IntOf(sum)]
                               ELSE [isfloat |-> TRUE, h |-> sum]]]
         ELSE [ok |-> FALSE, stats |-> stats]
    ELSE [ok |-> TRUE, stats |-> stats]

RECURSIVE CollectKeys(_, _, _)
CollectKeys(stats, elem, i) ==
    IF i > Len(StatKeys) THEN [ok |-> TRUE, stats |-> stats]
    ELSE LET r == CollectKey(stats, elem, StatKeys[i])
         IN IF r.ok THEN CollectKeys(r.stats, elem, i + 1) ELSE r

\* the generator finishes (send raises StopIteration) on this element
CollecterReturns(elem) == Len(elem.children) = 0

\* c.send(elem) on the generator suspended at its yield
Send(stats, elem) ==
    IF CollecterReturns(elem)
    THEN [status |-> "StopIteration", stats |-> stats]
    ELSE LET r == CollectKeys(stats, elem, 1)
         IN IF r.ok THEN [status |-> "ok", stats |-> r.stats]
            ELSE [status |-> "ValueError", stats |-> stats]

\* lines 122-126: [status, stats, visited]
RECURSIVE Walk(_, _, _)
Walk(children, i, stats) ==
    IF i > Len(children)
    THEN [status |-> "ok", stats |-> stats, visited |-> i - 1]
    ELSE LET r == Send(stats, children[i])
         IN IF r.status = "ok" THEN Walk(children, i + 1, r.stats)
            ELSE [status |-> r.status, stats |-> r.stats, visited |-> i]

\* a loop that replaces the merged children by each root's children
MergedChildren_lastonly(ts) == ts[Len(ts)].children

\* lines 118-120
MergedChildren(ts) == Flatten([i \in 1..Len(ts) |-> ts[i].children])

\* lines 128-134
StatsAttrib(stats) ==
    [k \in DOMAIN stats \ {"name"} |-> text_type(stats[k])]

\* lines 106-136
MergeMany(ts) ==
    LET merged == MergedChildren(ts)
        w == Walk(merged, 1, InitStats)
    IN IF w.status = "ok"
       THEN [status |-> "returned",
             tree |-> Element("testsuites", StatsAttrib(w.stats), <<>>, merged, <<>>),
             merged |-> merged, visited |-> w.visited]
       ELSE [status |-> w.status,
             tree |-> Element("testsuites", NoAttrib, <<>>, merged, <<>>),
             merged |-> merged, visited |-> w.visited]

\* a merge without the early return of lines 103-104
SingleResult_wrapped(ts) == MergeMany(ts)

\* lines 103-104
SingleResult(ts) ==
    [status |-> "returned", tree |-> ts[1], merged |-> ts[1].children,
     visited |-> 0]

\* lines 85-136
merge_trees(ts) == IF Len(ts) = 1 THEN SingleResult(ts) ELSE MergeMany(ts)

---------------------------------------------------------------------------
(* The serializers *)
CNAME_TAGS == <<"system-out", "system-err", "skipped", "error", "failure">>

CDATA_OPEN == <<"<", "!", "[", "C", "D", "A", "T", "A", "[">>
CDATA_CLOSE == <<"]", "]", ">">>

\* CNAME_PATTERN.format(text)
CNAME_PATTERN(text) == CDATA_OPEN \o text \o CDATA_CLOSE

\* TAG_PATTERN.format(tag=, attrs=, text=)
TAG_PATTERN(tag, attrs, text) ==
    <<"<", tag>> \o attrs \o <<">">> \o text \o <<"<", "/", tag, ">">>

\* attribute names in sorted() order
SortedNames == <<"classname", "disabled", "errors", "failures", "message",
                 "name", "skipped", "tests", "time", "type">>

SortedKeys(attrib) == SelectSeq(SortedNames, LAMBDA k : k \in DOMAIN attrib)

RECURSIVE MapChars(_, _)
MapChars(f, s) ==
    IF s = <<>> THEN <<>>
    ELSE (IF Head(s) \in DOMAIN f THEN f[Head(s)] ELSE <<Head(s)>>) \o MapChars(f, Tail(s))

AMP == <<"&", "a", "m", "p", ";">>
LT == <<"&", "l", "t", ";">>
GT == <<"&", "g", "t", ";">>
QUOT == <<"&", "q", "u", "o", "t", ";">>
NL == <<"&", "#", "1", "0", ";">>

\* ElementTree._escape_cdata
escape_cdata(text) == MapChars(("&" :> AMP) @@ ("<" :> LT) @@ (">" :> GT), text)

\* ElementTree._escape_attrib
escape_attrib(text) ==
    MapChars(("&" :> AMP) @@ ("<" :> LT) @@ (">" :> GT) @@ ("\"" :> QUOT) @@ ("\n" :> NL),
             text)

\* xml.sax.saxutils.quoteattr
quoteattr(data) ==
    LET d == MapChars(("&" :> AMP) @@ ("<" :> LT) @@ (">" :> GT) @@ ("\n" :> NL), data)
    IN IF "\"" \in Range(d)
       THEN IF "'" \in Range(d)
            THEN <<"\"">> \o MapChars(("\"" :> QUOT), d) \o <<"\"">>
            ELSE <<"'">> \o d \o <<"'">>
       ELSE <<"\"">> \o d \o <<"\"">>

\* '{}'.format(elem.text): None formats as the word None
FormatText(text) == IF text = <<>> THEN <<"N", "o", "n", "e">> ELSE text[1]

\* lines 58-62
CNameAttrs(elem) ==
    LET ks == SortedKeys(elem.attrib)
        joined == Flatten([i \in 1..Len(ks) |->
                     (IF i > 1 THEN <<" ">> ELSE <<>>)
                       \o <<ks[i], "=">> \o quoteattr(elem.attrib[ks[i]])])
    IN IF joined # <<>> THEN <<" ">> \o joined ELSE <<>>

\* lines 58-74
CNameContent(elem) ==
    TAG_PATTERN(elem.tag, CNameAttrs(elem), CNAME_PATTERN(FormatText(elem.text)))

RECURSIVE serialize_xml(_)
RECURSIVE original_serialize(_, _)

\* the module-global name etree._serialize_xml, as set by lines 78 and 82
Serializer(active, elem) ==
    IF active THEN serialize_xml(elem) ELSE original_serialize(FALSE, elem)

\* ElementTree._serialize_xml as captured at line 54; it recurses through
\* the module-global name
original_serialize(active, elem) ==
    LET ks == SortedKeys(elem.attrib)
        items == Flatten([i \in 1..Len(ks) |->
                     <<" ", ks[i], "=", "\"">> \o escape_attrib(elem.attrib[ks[i]])
                       \o <<"\"">>])
        hastext == elem.text # <<>> /\ elem.text[1] # <<>>
        body == IF hastext \/ Len(elem.children) > 0
                THEN <<">">>
                       \o (IF hastext THEN escape_cdata(elem.text[1]) ELSE <<>>)
                       \o Flatten([i \in 1..Len(elem.children) |->
                                     Serializer(active, elem.children[i])])
                       \o <<"<", "/", elem.tag, ">">>
                ELSE <<" ", "/", ">">>
    IN <<"<", elem.tag>> \o items \o body
         \o (IF elem.tail # <<>> THEN escape_cdata(elem.tail[1]) ELSE <<>>)

\* a patched serializer that looks at the text instead of the tag
serialize_xml_textguard(elem) ==
    IF elem.text # <<>>
    THEN CNameContent(elem)
    ELSE original_serialize(TRUE, elem)

\* lines 56-76
serialize_xml(elem) ==
    IF elem.tag \in Range(CNAME_TAGS)
    THEN CNameContent(elem)
    ELSE original_serialize(TRUE, elem)

---------------------------------------------------------------------------
(* Specification of merge_trees: up to MaxTrees trees with up to MaxMerged *)
(* second-level elements between them                                      *)
NoTree == Element("", NoAttrib, <<>>, <<>>, <<>>)

NoResult == [status |-> "none", tree |-> NoTree, merged |-> <<>>, visited |-> 0]

MInit ==
    /\ \E n \in 1..MaxTrees, m \in MergedSeqs :
          \E a \in [1..n -> RootAttribs], c \in Cuts(n, Len(m)) :
              trees = TreeSeq(n, m, a, c)
    /\ mpc = "ready" /\ mres = NoResult

MIdle == trees = <<>> /\ mpc = "off" /\ mres = NoResult

\* merge_trees(tree): lines 103-104
MergeSingleTree ==
    /\ mpc = "ready" /\ Len(trees) = 1
    /\ mres' = merge_trees(trees)
    /\ mpc' = "done"
    /\ UNCHANGED <<trees, svars, xvars>>

\* merge_trees(*trees) with several trees: lines 106-136
MergeSeveralTrees ==
    /\ mpc = "ready" /\ Len(trees) >= 2
    /\ mres' = merge_trees(trees)
    /\ mpc' = "done"
    /\ UNCHANGED <<trees, svars, xvars>>

---------------------------------------------------------------------------
(* Specification of the serializers: the inputs are drawn from SerTrees *)
MaxTextLen == 1
MaxSerDepth == 2

SerTextChars == {"b", "<", "&"}

SerTexts == UNION {[1..k -> SerTextChars] : k \in 0..MaxTextLen}

OptTexts == {<<>>} \cup {<<t>> : t \in SerTexts}

OptTails == {<<>>, << <<"t", "&">> >>}

SerAttribs ==
    { NoAttrib,
      ("type" :> <<"A">>) @@ ("message" :> <<"X">>),
      ("type" :> <<"a", "\"", "b">>) @@ ("message" :> <<"X", "<">>) }

LeafTags == Range(CNAME_TAGS) \cup {"testcase", "property"}

ParentTags == {"testcase", "testsuite"}

SerLeaves == {Element(t, a, x, <<>>, tl) :
                 t \in LeafTags, a \in SerAttribs, x \in OptTexts, tl \in OptTails}

RECURSIVE SerTrees(_)
SerTrees(d) ==
    IF d = 0 THEN SerLeaves
    ELSE LET sub == SerTrees(d - 1)
         IN sub \cup {Element(t, NoAttrib, <<>>, cs, <<>>) :
                         t \in ParentTags,
                         cs \in {<<c>> : c \in sub} \cup {<<c, TestCase>> : c \in sub}}

SInit == /\ selem \in SerTrees(MaxSerDepth)
         /\ spc = [patched |-> FALSE, standard |-> FALSE]
         /\ sout = <<>> /\ sstd = <<>>

SIdle == /\ selem = NoTree
         /\ spc = [patched |-> TRUE, standard |-> TRUE]
         /\ sout = <<>> /\ sstd = <<>>

\* with patch_etree_cname(ElementTree): ElementTree.tostring(tree)
WritePatched ==
    /\ ~spc.patched
    /\ sout' = Serializer(TRUE, selem)
    /\ spc' = [spc EXCEPT !.patched = TRUE]
    /\ UNCHANGED <<selem, sstd, mvars, xvars>>

\* ElementTree.tostring(tree) with no patch installed
WriteStandard ==
    /\ ~spc.standard
    /\ sstd' = Serializer(FALSE, selem)
    /\ spc' = [spc EXCEPT !.standard = TRUE]
    /\ UNCHANGED <<selem, sout, mvars, xvars>>

---------------------------------------------------------------------------
(* Specification of merge_xunit and patch_etree_cname.  The two places    *)
(* ElementTree keeps its serializer, _serialize_xml and _serialize['xml'], *)
(* hold the number of patch wrappers around the standard serializer.       *)
BadFile == [ok |-> FALSE, tree |-> NoTree]

SuiteTree == Element("testsuites", NoAttrib, <<>>,
                 <<Element("testsuite",
                           ("tests" :> <<"1">>) @@ ("time" :> <<"0", ".", "5">>),
                           <<>>,
                           <<Element("testcase", ("name" :> Chars_a), <<>>,
                                <<Element("failure", ("message" :> <<"X">>),
                                          << <<"b", "<">> >>, <<>>, <<>>)>>, <<>>)>>,
                           <<>>)>>, <<>>)

CaseTree == Element("testsuite", ("tests" :> <<"1">>), <<>>, <<TestCase>>, <<>>)

FileContents == {BadFile, [ok |-> TRUE, tree |-> SuiteTree], [ok |-> TRUE, tree |-> CaseTree]}

FileLists == UNION {[1..n -> FileContents] : n \in 1..MaxFiles}

HasBad(fs) == \E i \in 1..Len(fs) : ~fs[i].ok

\* a parse that drops the files that fail and goes on
ParseAll_skipbad(fs) ==
    LET good == SelectSeq(fs, LAMBDA f : f.ok)
    IN [ok |-> TRUE, trees |-> [i \in 1..Len(good) |-> good[i].tree]]

\* line 148: every file is parsed, the first failure raises
ParseAll(fs) ==
    IF HasBad(fs) THEN [ok |-> FALSE, trees |-> <<>>]
    ELSE [ok |-> TRUE, trees |-> [i \in 1..Len(fs) |-> fs[i].tree]]

XML_DECLARATION == <<"<?xml version='1.0' encoding='utf-8'?>", "\n">>

XInit == /\ files = <<>> /\ wfail = FALSE /\ direct = FALSE
         /\ xpc = "idle" /\ xerr = "none" /\ xtree = NoTree
         /\ opened = FALSE /\ output = <<>>
         /\ ser_xml = 0 /\ ser_dict = 0 /\ saved_serialize = 0

XIdle == /\ files = <<>> /\ wfail = FALSE /\ direct = FALSE
         /\ xpc = "off" /\ xerr = "none" /\ xtree = NoTree
         /\ opened = FALSE /\ output = <<>>
         /\ ser_xml = 0 /\ ser_dict = 0 /\ saved_serialize = 0

\* merge_xunit(files, output) is called; wf: the write will fail
CallMergeXunit(fs, wf) ==
    /\ xpc = "idle" /\ ser_xml < MaxPatchDepth
    /\ files' = fs /\ wfail' = wf /\ direct' = FALSE
    /\ xpc' = "parse" /\ xerr' = "none" /\ xtree' = NoTree
    /\ opened' = FALSE /\ output' = <<>>
    /\ UNCHANGED <<ser_xml, ser_dict, saved_serialize, mvars, svars>>

\* line 148
Parse ==
    /\ xpc = "parse"
    /\ IF ParseAll(files).ok
       THEN xpc' = "merge" /\ xerr' = xerr
       ELSE xpc' = "idle" /\ xerr' = "ParseError"
    /\ UNCHANGED <<files, wfail, direct, xtree, opened, output,
                   ser_xml, ser_dict, saved_serialize, mvars, svars>>

\* lines 150-155, callback None
Merge ==
    /\ xpc = "merge"
    /\ LET r == merge_trees(ParseAll(files).trees)
       IN IF r.status = "returned"
          THEN xtree' = r.tree /\ xpc' = "enter" /\ xerr' = xerr
          ELSE xtree' = xtree /\ xpc' = "idle" /\ xerr' = r.status
    /\ UNCHANGED <<files, wfail, direct, opened, output,
                   ser_xml, ser_dict, saved_serialize, mvars, svars>>

\* with patch_etree_cname(etree): tostring(elem), used on its own
UsePatch(elem, wf) ==
    /\ xpc = "idle" /\ ser_xml < MaxPatchDepth
    /\ files' = <<>> /\ wfail' = wf /\ direct' = TRUE
    /\ xpc' = "enter" /\ xerr' = "none" /\ xtree' = elem
    /\ opened' = FALSE /\ output' = <<>>
    /\ UNCHANGED <<ser_xml, ser_dict, saved_serialize, mvars, svars>>

\* lines 54-80: the patch is installed
Enter ==
    /\ xpc = "enter"
    /\ saved_serialize' = ser_xml
    /\ ser_xml' = ser_xml + 1 /\ ser_dict' = ser_xml + 1
    /\ xpc' = "body"
    /\ UNCHANGED <<files, wfail, direct, xerr, xtree, opened, output, mvars, svars>>

\* where control goes when the body of the with statement raises: the
\* exception is thrown into the generator at line 80 and leaves it
AfterRaise == "idle"

\* line 158 (or the body of a with statement): the write
Write ==
    /\ xpc = "body"
    /\ opened' = ~direct
    /\ IF wfail
       THEN xerr' = "IOError" /\ xpc' = AfterRaise /\ output' = output
       ELSE /\ xerr' = xerr /\ xpc' = "exit"
            /\ output' = (IF direct THEN <<>> ELSE XML_DECLARATION)
                            \o Serializer(ser_dict > 0, xtree)
    /\ UNCHANGED <<files, wfail, direct, xtree, ser_xml, ser_dict, saved_serialize,
                   mvars, svars>>

\* line 82: the saved serializer is put back
Exit ==
    /\ xpc = "exit"
    /\ ser_xml' = saved_serialize /\ ser_dict' = saved_serialize
    /\ xpc' = "idle"
    /\ UNCHANGED <<files, wfail, direct, xerr, xtree, opened, output, saved_serialize,
                   mvars, svars>>

---------------------------------------------------------------------------
Init == MInit /\ SIdle /\ XIdle
Next == MergeSingleTree \/ MergeSeveralTrees
Spec == Init /\ [][Next]_vars

InitSer == MIdle /\ SInit /\ XIdle
NextSer == WritePatched \/ WriteStandard
SpecSer == InitSer /\ [][NextSer]_vars

InitXunit == MIdle /\ SIdle /\ XInit
NextXunit ==
    \/ \E fs \in FileLists, wf \in BOOLEAN : CallMergeXunit(fs, wf)
    \/ Parse
    \/ Merge
    \/ \E wf \in BOOLEAN : UsePatch(SuiteTree, wf)
    \/ Enter
    \/ Write
    \/ Exit
SpecXunit == InitXunit /\ [][NextXunit]_vars

---------------------------------------------------------------------------
(* Properties of merge_trees (specification Spec) *)
IntKeys == {"tests", "errors", "failures", "skipped", "disabled"}

\* the integer an element contributes for a key: 0 when absent or not a number
AttrInt(e, k) ==
    IF k \in DOMAIN e.attrib /\ e.attrib[k] # <<>> /\ IsDigits(e.attrib[k])
    THEN DigitsVal(e.attrib[k]) ELSE 0

IsLeaf(e) == Len(e.children) = 0

\* the sum of a key over a sequence of elements, all of them or the leaves
RECURSIVE SumElems(_, _, _)
SumElems(es, k, leavesOnly) ==
    IF es = <<>> THEN 0
    ELSE (IF leavesOnly => IsLeaf(Head(es)) THEN AttrInt(Head(es), k) ELSE 0)
           + SumElems(Tail(es), k, leavesOnly)

\* the sum of a key over the direct children of the roots of the trees
RECURSIVE SumTrees(_, _, _)
SumTrees(ts, k, leavesOnly) ==
    IF ts = <<>> THEN 0
    ELSE SumElems(Head(ts).children, k, leavesOnly) + SumTrees(Tail(ts), k, leavesOnly)

RECURSIVE CountChildren(_)
CountChildren(ts) ==
    IF ts = <<>> THEN 0 ELSE Len(Head(ts).children) + CountChildren(Tail(ts))

SecondLevelOf(ts) == UNION {Range(ts[i].children) : i \in 1..Len(ts)}

Returned == mpc = "done" /\ mres.status = "returned"

\* the merged root carries, for key k, the decimal numeral of n
RootHasInt(k, n) ==
    /\ k \in DOMAIN mres.tree.attrib
    /\ mres.tree.attrib[k] # <<>> /\ IsDigits(mres.tree.attrib[k])
    /\ DigitsVal(mres.tree.attrib[k]) = n

Offset(ts, i) == CountChildren(SubSeq(ts, 1, i - 1))

C4_SingleTreeUnchanged ==
    (mpc = "done" /\ Len(trees) = 1) =>
        /\ mres.status = "returned"
        /\ mres.tree = trees[1]
        /\ mres.tree.tag = "testsuite"

C4_Witness ==
    /\ mpc = "done" /\ Len(trees) = 1 /\ mres.status = "returned"
    /\ "name" \in DOMAIN mres.tree.attrib
    /\ Len(mres.tree.children) = 2
    /\ \E e \in Range(mres.tree.children) : IsLeaf(e)

\* an aggregate value that is present, not empty and not a number
NonNumeric(e) ==
    \E k \in Range(StatKeys) :
        k \in DOMAIN e.attrib /\ e.attrib[k] # <<>> /\ ~IsNumeric(e.attrib[k])

\* C5: with two or more trees, an aggregate value that does not parse as a
\* number is skipped: merge_trees still returns the merged tree and the
\* other values are summed (stated for merged children that all have
\* children, which is where the collecter reads the attributes)
C5_NonNumericSkipped ==
    (mpc = "done" /\ Len(trees) >= 2
        /\ \A e \in SecondLevelOf(trees) : ~IsLeaf(e)
        /\ \E b \in SecondLevelOf(trees) : NonNumeric(b)) =>
            /\ mres.status = "returned"
            /\ \A k \in IntKeys : RootHasInt(k, SumTrees(trees, k, FALSE))

C6_Attribs == ("tests" :> <<"1">>) @@ ("errors" :> <<"0">>) @@ ("failures" :> <<"0">>)
                @@ ("time" :> <<"0", ".", "5">>)

C6_Input == Element("testsuite", C6_Attribs, <<>>, <<TestCase>>, <<>>)

\* C6: merging two testsuite roots with tests=1, errors=0, failures=0,
\* time=0.5 and one childless testcase each yields a testsuites root with
\* tests=2, errors=0, failures=0, time=1.0 and both testcases in order
C6_Scenario ==
    (mpc = "done" /\ trees = <<C6_Input, C6_Input>>) =>
        /\ mres.status = "returned"
        /\ mres.tree.tag = "testsuites"
        /\ RootHasInt("tests", 2) /\ RootHasInt("errors", 0) /\ RootHasInt("failures", 0)
        /\ "time" \in DOMAIN mres.tree.attrib
        /\ mres.tree.attrib["time"] = <<"1", ".", "0">>
        /\ mres.tree.children = <<TestCase, TestCase>>

\* C10: with two or more trees the walk visits every merged child and
\* completes normally, sums the children that have no children and does
\* not sum the ones that have (stated for inputs without non-numeric values)
C10_WalkCompletes ==
    (mpc = "done" /\ Len(trees) >= 2
        /\ \A e \in SecondLevelOf(trees) : ~NonNumeric(e)) =>
            /\ mres.status = "returned"
            /\ mres.visited = CountChildren(trees)
            /\ \A k \in IntKeys : RootHasInt(k, SumTrees(trees, k, TRUE))

---------------------------------------------------------------------------
(* Properties of the serializers (specification SpecSer) *)
RECURSIVE Elems(_)
Elems(e) == {e} \cup UNION {Elems(e.children[i]) : i \in 1..Len(e.children)}

InCName(e) == e.tag \in Range(CNAME_TAGS)

\* the text of an element, empty when it has none
TextOf(e) == IF e.text = <<>> THEN <<>> ELSE e.text[1]

\* opening tag with sorted, quoted attributes, the text as CDATA, closing tag
CDataForm(e) ==
    <<"<", e.tag>> \o CNameAttrs(e) \o <<">">>
      \o CDATA_OPEN \o TextOf(e) \o CDATA_CLOSE
      \o <<"<", "/", e.tag, ">">>

\* C7: with the patch active, the output holds, for every element whose tag
\* is in CNAME_TAGS, its opening tag, then <![CDATA[ followed by the exact
\* text of the element and ]]>, then its closing tag, whatever the text is,
\* also when the element has no text
C7_CDataExactText ==
    spc.patched =>
        \A e \in Elems(selem) : InCName(e) => IsInfix(CDataForm(e), sout)

\* C9: for a tree with no tag in CNAME_TAGS the patched serializer writes
\* exactly what the standard serializer writes
C9_NonCNameIdentical ==
    (spc.patched /\ spc.standard /\ \A e \in Elems(selem) : ~InCName(e)) =>
        sout = sstd

C9_Witness ==
    /\ spc.patched /\ spc.standard /\ selem # NoTree
    /\ \A e \in Elems(selem) : ~InCName(e)
    /\ \E c \in Range(selem.children) : \E g \in Range(c.children) :
          g.text = << <<"<">> >> /\ g.tail # <<>> /\ DOMAIN g.attrib # {}
    /\ IsInfix(LT, sout) /\ sout = sstd

---------------------------------------------------------------------------
(* Properties of merge_xunit and patch_etree_cname (specification SpecXunit) *)

\* C3: whenever no write is in progress, _serialize_xml and
\* _serialize['xml'] are the standard serializer, also after a write that
\* raised
C3_RestoredWhenIdle == xpc = "idle" => (ser_xml = 0 /\ ser_dict = 0)

\* C8: when some input file, at any position, fails to parse, the error is
\* surfaced and the output is never opened or written
C8_NoOutputOnParseError ==
    (~direct /\ HasBad(files)) =>
        /\ ~opened /\ output = <<>>
        /\ xpc \in {"parse", "idle"}
        /\ xpc = "idle" => xerr = "ParseError"

C8_Witness ==
    /\ xpc = "idle" /\ ~direct /\ xerr = "ParseError"
    /\ Len(files) = 3 /\ files[1].ok /\ files[2].ok /\ ~files[3].ok
    /\ ~opened /\ output = <<>>

====
